---- MODULE Spec2Model ----
(***************************************************************************)
(* Model of awslabs/aws_api_mcp_server/core/common/config.py: the          *)
(* environment-driven configuration of the AWS API MCP server.             *)
(*                                                                         *)
(* A Python str is a sequence of characters (one-character TLA+ strings;   *)
(* the two non-ASCII characters that str.casefold rewrites are written     *)
(* "U+017F" and "U+00DF").  os.environ is a mapping: a function whose      *)
(* DOMAIN is the set of variables that are set.                            *)
(***************************************************************************)
EXTENDS Integers, Sequences, FiniteSets, TLC

VARIABLES
    platform,   \* the OS identity: os.name and os.uname().sysname
    tempdir,    \* what tempfile.gettempdir() returns in this process
    environ,    \* os.environ
    modules,    \* per interpreter: the module's namespace once imported
    loadEnv,    \* per interpreter: os.environ as it was when the module was imported
    call,       \* the last call of a public function or read of a constant, with its result
    nchanges    \* number of os.environ mutations so far

vars == <<platform, tempdir, environ, modules, loadEnv, call, nchanges>>

----------------------------------------------------------------------------
(* Bounds of the model *)

\* longest string of the enumerated short environment values
MaxLen == 3
\* most whitespace characters put before and after a boolean literal
MaxPad == 1
\* longest directory string of XDG_RUNTIME_DIR and TMPDIR
MaxDirLen == 2
\* most mutations of os.environ in one run
MaxEnvChanges == 2

----------------------------------------------------------------------------
(* Python values *)

PyNone == [type |-> "NoneType"]

PyStr(s) == [type |-> "str", s |-> s]

\* bool(x) of a value that is None or a str: None and '' are falsy
Truthy(v) == v.type = "str" /\ v.s # <<>>

\* Python's `a or b`
PyOr(a, b) == IF Truthy(a) THEN a ELSE b

\* str(b) of a bool
StrOfBool(b) == IF b THEN <<"T", "r", "u", "e">> ELSE <<"F", "a", "l", "s", "e">>

\* os.environ.get(key) / os.getenv(key): None when the variable is not set
environ_get(env, key) == IF key \in DOMAIN env THEN PyStr(env[key]) ELSE PyNone

\* os.getenv(key, default): the default only when the variable is not set
getenv(env, key, default) == IF key \in DOMAIN env THEN PyStr(env[key]) ELSE default

----------------------------------------------------------------------------
(* str.casefold *)

\* The characters full Unicode case folding rewrites, among those of the model:
\* the ASCII capitals, LATIN SMALL LETTER LONG S and LATIN SMALL LETTER SHARP S.
FoldTable ==
    ("T" :> <<"t">>) @@ ("R" :> <<"r">>) @@ ("U" :> <<"u">>) @@ ("E" :> <<"e">>) @@
    ("Y" :> <<"y">>) @@ ("S" :> <<"s">>) @@ ("F" :> <<"f">>) @@ ("A" :> <<"a">>) @@
    ("L" :> <<"l">>) @@ ("N" :> <<"n">>) @@ ("O" :> <<"o">>) @@
    ("U+017F" :> <<"s">>) @@ ("U+00DF" :> <<"s", "s">>)

FoldChar(c) == IF c \in DOMAIN FoldTable THEN FoldTable[c] ELSE <<c>>

RECURSIVE casefold(_)
casefold(s) == IF s = <<>> THEN <<>> ELSE FoldChar(Head(s)) \o casefold(Tail(s))

----------------------------------------------------------------------------
(* get_env_bool *)

TRUTHY_VALUES == {<<"t", "r", "u", "e">>, <<"y", "e", "s">>, <<"1">>}

READ_ONLY_KEY == "READ_OPERATIONS_ONLY"

TELEMETRY_KEY == "AWS_API_MCP_TELEMETRY"

get_env_bool_no_fold(env, env_key, default) ==
    getenv(env, env_key, PyStr(StrOfBool(default))).s \in TRUTHY_VALUES

get_env_bool_default_wins(env, env_key, default) ==
    IF env_key \in DOMAIN env /\ casefold(env[env_key]) \in TRUTHY_VALUES
    THEN TRUE
    ELSE default

get_env_bool(env, env_key, default) ==
    casefold(getenv(env, env_key, PyStr(StrOfBool(default))).s) \in TRUTHY_VALUES

----------------------------------------------------------------------------
(* pathlib.Path, as far as the module uses it: Path(str) and path / 'name'. *)
(* A path is its drive, its root and its components.                        *)

\* the separators Path(...) splits at: '/' on POSIX, '\' and '/' on Windows
Seps(pf) == IF pf.name = "nt" THEN {"\\", "/"} ELSE {"/"}

\* the separator str(path) joins with
Sep(pf) == IF pf.name = "nt" THEN "\\" ELSE "/"

RECURSIVE SplitAcc(_, _, _, _)
SplitAcc(s, seps, cur, acc) ==
    IF s = <<>> THEN Append(acc, cur)
    ELSE IF Head(s) \in seps THEN SplitAcc(Tail(s), seps, <<>>, Append(acc, cur))
    ELSE SplitAcc(Tail(s), seps, Append(cur, Head(s)), acc)

\* s.split(sep)
Split(s, seps) == SplitAcc(s, seps, <<>>, <<>>)

RECURSIVE LeadingSeps(_, _)
LeadingSeps(s, seps) ==
    IF s # <<>> /\ Head(s) \in seps THEN 1 + LeadingSeps(Tail(s), seps) ELSE 0

\* the drive of a Windows path: 'X:' (UNC shares are not modelled; no value of
\* the model starts with two separators on Windows)
DriveOf(pf, s) ==
    IF pf.name = "nt" /\ Len(s) >= 2 /\ s[2] = ":" THEN SubSeq(s, 1, 2) ELSE <<>>

\* the root: on POSIX exactly two leading slashes are kept, any other number is
\* one; on Windows one backslash
RootOf(pf, rest) ==
    LET n == LeadingSeps(rest, Seps(pf))
    IN  IF n = 0 THEN <<>>
        ELSE IF pf.name # "nt" /\ n = 2 THEN <<"/", "/">>
        ELSE <<Sep(pf)>>

\* Path(s): empty and '.' components are dropped, '..' is kept
Path(pf, s) ==
    LET drv  == DriveOf(pf, s)
        rest == SubSeq(s, Len(drv) + 1, Len(s))
    IN  [type  |-> "Path",
         drv   |-> drv,
         root  |-> RootOf(pf, rest),
         parts |-> SelectSeq(Split(rest, Seps(pf)),
                             LAMBDA x : x # <<>> /\ x # <<".">>)]

\* path / name, for a name that is one relative component
PathJoin(p, name) == [p EXCEPT !.parts = Append(@, name)]

RECURSIVE JoinParts(_, _)
JoinParts(parts, sep) ==
    IF parts = <<>> THEN <<>>
    ELSE IF Len(parts) = 1 THEN parts[1]
    ELSE parts[1] \o <<sep>> \o JoinParts(Tail(parts), sep)

\* str(path): '.' for the empty path
PathStr(pf, p) ==
    LET s == p.drv \o p.root \o JoinParts(p.parts, Sep(pf))
    IN  IF s = <<>> THEN <<".">> ELSE s

\* str(x) of a str or a Path
StrOf(pf, v) == IF v.type = "Path" THEN PathStr(pf, v) ELSE v.s

----------------------------------------------------------------------------
(* get_server_directory *)

base_location == <<"a", "w", "s", "-", "a", "p", "i", "-", "m", "c", "p">>

workdir == <<"w", "o", "r", "k", "d", "i", "r">>

\* os.name == 'nt' or os.uname().sysname == 'Darwin'.  os.uname does not exist
\* on Windows; the `or` does not call it there.
IsWindowsOrMac(pf) == pf.name = "nt" \/ pf.sysname = "Darwin"

get_server_directory_tmpdir_first(pf, env, tmp) ==
    IF IsWindowsOrMac(pf)
    THEN PathJoin(Path(pf, tmp), base_location)
    ELSE LET base_dir == PyOr(PyOr(environ_get(env, "TMPDIR"),
                                   environ_get(env, "XDG_RUNTIME_DIR")), PyStr(tmp))
         IN  PathJoin(Path(pf, base_dir.s), base_location)

get_server_directory_no_mac(pf, env, tmp) ==
    IF pf.name = "nt"
    THEN PathJoin(Path(pf, tmp), base_location)
    ELSE LET base_dir == PyOr(PyOr(environ_get(env, "XDG_RUNTIME_DIR"),
                                   environ_get(env, "TMPDIR")), PyStr(tmp))
         IN  PathJoin(Path(pf, base_dir.s), base_location)

get_server_directory(pf, env, tmp) ==
    IF IsWindowsOrMac(pf)
    THEN PathJoin(Path(pf, tmp), base_location)
    ELSE LET base_dir == PyOr(PyOr(environ_get(env, "XDG_RUNTIME_DIR"),
                                   environ_get(env, "TMPDIR")), PyStr(tmp))
         IN  PathJoin(Path(pf, base_dir.s), base_location)

----------------------------------------------------------------------------
(* The module-level constants *)

WARNING == <<"W", "A", "R", "N", "I", "N", "G">>

FASTMCP_LOG_LEVEL(env) == getenv(env, "FASTMCP_LOG_LEVEL", PyStr(WARNING))

DEFAULT_REGION_or_empty(env) ==
    PyStr(IF "AWS_REGION" \in DOMAIN env THEN env["AWS_REGION"] ELSE <<>>)

DEFAULT_REGION(env) == environ_get(env, "AWS_REGION")

READ_OPERATIONS_ONLY_MODE(env) == get_env_bool(env, READ_ONLY_KEY, FALSE)

OPT_IN_TELEMETRY_default_off(env) == get_env_bool(env, TELEMETRY_KEY, FALSE)

OPT_IN_TELEMETRY(env) == get_env_bool(env, TELEMETRY_KEY, TRUE)

WORKING_DIRECTORY_under_server_dir(pf, env, tmp) ==
    IF "AWS_API_MCP_WORKING_DIR" \in DOMAIN env
    THEN PathJoin(get_server_directory(pf, env, tmp), env["AWS_API_MCP_WORKING_DIR"])
    ELSE PathJoin(get_server_directory(pf, env, tmp), workdir)

\* The default is computed before os.getenv is called, whether or not it is used.
WORKING_DIRECTORY(pf, env, tmp) ==
    getenv(env, "AWS_API_MCP_WORKING_DIR",
           PathJoin(get_server_directory(pf, env, tmp), workdir))

AWS_API_MCP_PROFILE_NAME(env) == environ_get(env, "AWS_API_MCP_PROFILE_NAME")

\* The namespace the module body leaves behind
ModuleBody(pf, env, tmp) ==
    [FASTMCP_LOG_LEVEL         |-> FASTMCP_LOG_LEVEL(env),
     DEFAULT_REGION            |-> DEFAULT_REGION(env),
     READ_OPERATIONS_ONLY_MODE |-> READ_OPERATIONS_ONLY_MODE(env),
     OPT_IN_TELEMETRY          |-> OPT_IN_TELEMETRY(env),
     WORKING_DIRECTORY         |-> WORKING_DIRECTORY(pf, env, tmp),
     AWS_API_MCP_PROFILE_NAME  |-> AWS_API_MCP_PROFILE_NAME(env)]

----------------------------------------------------------------------------
(* The inputs: OS identities, temporary directories, environment tables *)

\* os.name and os.uname().sysname (os.uname does not exist on Windows)
Platforms ==
    {[name |-> "nt",    sysname |-> "(no os.uname)"],
     [name |-> "posix", sysname |-> "Darwin"],
     [name |-> "posix", sysname |-> "Linux"],
     [name |-> "posix", sysname |-> "FreeBSD"]}

\* tempfile.gettempdir() returns an absolute, normalised directory name
TempDirs(pf) ==
    IF pf.name = "nt"
    THEN {<<"C", ":", "\\", "T">>}
    ELSE {<<"/", "t", "m", "p">>, <<"/", "v", "/", "t">>}

\* the environment variables the module consumes
StringKeys == {"FASTMCP_LOG_LEVEL", "AWS_REGION", "AWS_API_MCP_PROFILE_NAME"}

BoolKeys == {READ_ONLY_KEY, TELEMETRY_KEY}

DirKeys == {"XDG_RUNTIME_DIR", "TMPDIR"}

Keys == StringKeys \cup BoolKeys \cup DirKeys \cup {"AWS_API_MCP_WORKING_DIR"}

\* all strings over an alphabet, up to a length
StringsUpTo(alphabet, n) == UNION {[1..k -> alphabet] : k \in 0..n}

\* the capital of a character that has one
UpperChar(c) ==
    CASE c = "t" -> "T" [] c = "r" -> "R" [] c = "u" -> "U" [] c = "e" -> "E"
      [] c = "y" -> "Y" [] c = "s" -> "S" [] c = "f" -> "F" [] c = "a" -> "A"
      [] c = "l" -> "L" [] c = "n" -> "N" [] c = "o" -> "O"
      [] c = "U+017F" -> "S"
      [] OTHER -> c

\* literals a boolean variable may be set to, in lower case
BoolWords ==
    {<<>>, <<"t", "r", "u", "e">>, <<"y", "e", "s">>, <<"1">>,
     <<"f", "a", "l", "s", "e">>, <<"n", "o">>, <<"0">>, <<"o", "n">>,
     <<"t">>, <<"y">>, <<"t", "r", "u">>, <<"y", "e", "s", "s">>,
     <<"1", "0">>, <<"y", "e", "U+017F">>, <<"y", "e", "U+00DF">>}

\* every way of capitalising some characters of a word
Casings(w) ==
    {[i \in 1..Len(w) |-> IF i \in up THEN UpperChar(w[i]) ELSE w[i]] :
        up \in SUBSET (1..Len(w))}

Spaces(n) == [i \in 1..n |-> " "]

\* the values a boolean variable is set to: the literals in every casing, padded
\* with whitespace, and every short string over a few characters
BoolStrings ==
    {Spaces(a) \o v \o Spaces(b) :
        v \in UNION {Casings(w) : w \in BoolWords}, a \in 0..MaxPad, b \in 0..MaxPad}
    \cup StringsUpTo({"1", "y", "e", "s", "S", " "}, MaxLen)

\* the values XDG_RUNTIME_DIR and TMPDIR are set to
DirStrings == StringsUpTo({"/", ".", "x"}, MaxDirLen)

\* the non-empty value each variable takes in the environment tables of the
\* configuration and when the host sets it
Sample(k) ==
    CASE k = READ_ONLY_KEY -> <<"1">>
      [] k = TELEMETRY_KEY -> <<"0">>
      [] k = "XDG_RUNTIME_DIR" -> <<"/", "r">>
      [] k = "TMPDIR" -> <<"/", "x">>
      [] k = "AWS_API_MCP_WORKING_DIR" -> <<"/", "w">>
      [] OTHER -> <<"v">>

\* a variable is set to the empty string or to its sample
SampleValues(k) == {<<>>, Sample(k)}

\* every environment table: each variable unset, empty, or set to its sample
SampleTables ==
    UNION {{[k \in set |-> IF k \in empty THEN <<>> ELSE Sample(k)] :
                empty \in SUBSET set} : set \in SUBSET Keys}

\* every environment table that sets the variables `set` to values of `values`
Tables(set, values) == [set -> values]

Interps == {1, 2}

NoCall == [fn |-> "none"]

----------------------------------------------------------------------------
(* Operations *)

\* An interpreter imports the module and runs its body once.
ImportModule_writes_back(i) ==
    /\ i \notin DOMAIN modules
    /\ modules' = (i :> ModuleBody(platform, environ, tempdir)) @@ modules
    /\ loadEnv' = (i :> environ) @@ loadEnv
    /\ environ' = ("FASTMCP_LOG_LEVEL" :> FASTMCP_LOG_LEVEL(environ).s) @@ environ
    /\ UNCHANGED <<platform, tempdir, call, nchanges>>

ImportModule(i) ==
    /\ i \notin DOMAIN modules
    /\ modules' = (i :> ModuleBody(platform, environ, tempdir)) @@ modules
    /\ loadEnv' = (i :> environ) @@ loadEnv
    /\ UNCHANGED <<platform, tempdir, environ, call, nchanges>>

\* The host process sets an environment variable.
Putenv_reloads(k, v) ==
    /\ nchanges < MaxEnvChanges
    /\ environ' = (k :> v) @@ environ
    /\ nchanges' = nchanges + 1
    /\ modules' = [i \in DOMAIN modules |-> ModuleBody(platform, environ', tempdir)]
    /\ UNCHANGED <<platform, tempdir, loadEnv, call>>

Putenv(k, v) ==
    /\ nchanges < MaxEnvChanges
    /\ environ' = (k :> v) @@ environ
    /\ nchanges' = nchanges + 1
    /\ UNCHANGED <<platform, tempdir, modules, loadEnv, call>>

\* The host process unsets an environment variable.
Unsetenv(k) ==
    /\ nchanges < MaxEnvChanges
    /\ k \in DOMAIN environ
    /\ environ' = [x \in DOMAIN environ \ {k} |-> environ[x]]
    /\ nchanges' = nchanges + 1
    /\ UNCHANGED <<platform, tempdir, modules, loadEnv, call>>

\* A consumer reads the constants of the imported module.
ReadConfig(i) ==
    /\ i \in DOMAIN modules
    /\ call' = [fn |-> "read", interp |-> i, ret |-> modules[i]]
    /\ UNCHANGED <<platform, tempdir, environ, modules, loadEnv, nchanges>>

CallGetEnvBool(k, d) ==
    /\ call' = [fn |-> "get_env_bool", env_key |-> k, default |-> d,
                ret |-> get_env_bool(environ, k, d)]
    /\ UNCHANGED <<platform, tempdir, environ, modules, loadEnv, nchanges>>

CallGetServerDirectory ==
    /\ call.fn = "none"
    /\ call' = [fn |-> "get_server_directory",
                ret |-> get_server_directory(platform, environ, tempdir)]
    /\ UNCHANGED <<platform, tempdir, environ, modules, loadEnv, nchanges>>

----------------------------------------------------------------------------
(* Specifications *)

NoModules == [i \in {} |-> 0]

\* The process: it starts with none of the consumed variables set; the host sets
\* and unsets variables, interpreters import the module, consumers read it.
Init ==
    /\ platform \in Platforms
    /\ tempdir \in TempDirs(platform)
    /\ environ = NoModules
    /\ modules = NoModules
    /\ loadEnv = NoModules
    /\ call = NoCall
    /\ nchanges = 0

Next ==
    \/ \E i \in Interps : ImportModule(i)
    \/ \E k \in Keys : \E v \in SampleValues(k) : Putenv(k, v)
    \/ \E k \in Keys : Unsetenv(k)
    \/ \E i \in Interps : ReadConfig(i)

Spec == Init /\ [][Next]_vars

\* get_env_bool applied to every value of a boolean variable
InitBool ==
    /\ platform = [name |-> "posix", sysname |-> "Linux"]
    /\ tempdir = <<"/", "t", "m", "p">>
    /\ environ \in UNION {Tables(set, BoolStrings) :
                            set \in {{}} \cup {{k} : k \in BoolKeys}}
    /\ modules = NoModules
    /\ loadEnv = NoModules
    /\ call = NoCall
    /\ nchanges = 0

NextBool == \E k \in BoolKeys : \E d \in BOOLEAN : CallGetEnvBool(k, d)

SpecBool == InitBool /\ [][NextBool]_vars

\* get_server_directory applied to every OS identity and directory variables
InitDir ==
    /\ platform \in Platforms
    /\ tempdir \in TempDirs(platform)
    /\ environ \in UNION {Tables(set, DirStrings) : set \in SUBSET DirKeys}
    /\ modules = NoModules
    /\ loadEnv = NoModules
    /\ call = NoCall
    /\ nchanges = 0

NextDir == CallGetServerDirectory

SpecDir == InitDir /\ [][NextDir]_vars

\* the module body applied to every environment table
InitConfig ==
    /\ platform \in Platforms
    /\ tempdir \in TempDirs(platform)
    /\ environ \in SampleTables
    /\ modules = NoModules
    /\ loadEnv = NoModules
    /\ call = NoCall
    /\ nchanges = 0

NextConfig == ImportModule(1)

SpecConfig == InitConfig /\ [][NextConfig]_vars

----------------------------------------------------------------------------
(* Properties *)

\* every casing of the three truthy literals
TruthyCasings == UNION {Casings(w) : w \in TRUTHY_VALUES}

\* values the documentation names as not truthy
NamedFalsy ==
    {<<>>, <<"f", "a", "l", "s", "e">>, <<"F", "a", "l", "s", "e">>, <<"0">>,
     <<"n", "o">>, <<" ", "t", "r", "u", "e">>, <<"y", "e", "s", " ">>,
     <<" ", "1">>, <<"o", "n">>, <<"1", "0">>}

\* C1: for a variable that is set, get_env_bool returns true exactly when the
\* case-folded value is one of "true", "yes", "1", whatever the default: every
\* casing of the three literals gives true; the empty string, "false", "0",
\* "no", whitespace-padded literals and other strings give false.
C1_TruthyIffFoldedLiteral ==
    (call.fn = "get_env_bool" /\ call.env_key \in DOMAIN environ) =>
        LET v == environ[call.env_key]
        IN  /\ call.ret = (casefold(v) \in TRUTHY_VALUES)
            /\ (v \in TruthyCasings => call.ret)
            /\ (v \in NamedFalsy => ~call.ret)
            /\ (call.ret => \A i \in 1..Len(v) : v[i] # " ")
            /\ call.ret = get_env_bool(environ, call.env_key, ~call.default)

\* C1 witness: READ_OPERATIONS_ONLY=" true" read with default True gives False
C1_Witness ==
    /\ call.fn = "get_env_bool"
    /\ call.env_key \in DOMAIN environ
    /\ environ[call.env_key] = <<" ", "t", "r", "u", "e">>
    /\ call.default = TRUE
    /\ call.ret = FALSE

\* C2: for a variable that is not set, get_env_bool returns the default.
C2_UnsetGivesDefault ==
    (call.fn = "get_env_bool" /\ call.env_key \notin DOMAIN environ) =>
        call.ret = call.default

\* C2 witness: an unset variable read with default True gives True
C2_Witness ==
    /\ call.fn = "get_env_bool"
    /\ call.env_key \notin DOMAIN environ
    /\ call.default = TRUE
    /\ call.ret = TRUE

\* the string a path prints as when Path leaves the string as it is
PrintsAsWritten(pf, s) == Path(pf, s).parts # <<>> /\ PathStr(pf, Path(pf, s)) = s

\* <base>/aws-api-mcp: the path whose parent is Path(base) and whose last
\* component is aws-api-mcp; it prints as base + separator + 'aws-api-mcp' when
\* base is written the way paths print
IsServerDirectoryUnder(pf, p, base) ==
    /\ p.type = "Path"
    /\ p.parts # <<>>
    /\ p.parts[Len(p.parts)] = base_location
    /\ [p EXCEPT !.parts = SubSeq(@, 1, Len(@) - 1)] = Path(pf, base)
    /\ (PrintsAsWritten(pf, base) =>
            PathStr(pf, p) = base \o <<Sep(pf)>> \o base_location)

FirstNonEmptyBase(env, tmp) ==
    IF "XDG_RUNTIME_DIR" \in DOMAIN env /\ env["XDG_RUNTIME_DIR"] # <<>>
    THEN env["XDG_RUNTIME_DIR"]
    ELSE IF "TMPDIR" \in DOMAIN env /\ env["TMPDIR"] # <<>>
    THEN env["TMPDIR"]
    ELSE tmp

\* C4: on any other OS get_server_directory returns <base>/aws-api-mcp, base
\* being the first non-empty of XDG_RUNTIME_DIR, TMPDIR and the temporary
\* directory.
C4_LinuxFallbackChain ==
    (call.fn = "get_server_directory"
        /\ platform.name # "nt" /\ platform.sysname # "Darwin") =>
        IsServerDirectoryUnder(platform, call.ret, FirstNonEmptyBase(environ, tempdir))

\* C4 witness: Linux with both variables set non-empty; XDG_RUNTIME_DIR wins
C4_Witness ==
    /\ call.fn = "get_server_directory"
    /\ platform.sysname = "Linux"
    /\ DirKeys \subseteq DOMAIN environ
    /\ environ["XDG_RUNTIME_DIR"] = <<"/", "x">>
    /\ environ["TMPDIR"] = <<"x">>
    /\ PathStr(platform, call.ret) = <<"/", "x", "/">> \o base_location

\* C5: WORKING_DIRECTORY of every imported module is a non-empty path.
C5_WorkingDirectoryNonEmpty ==
    \A i \in DOMAIN modules :
        /\ modules[i].WORKING_DIRECTORY # PyNone
        /\ StrOf(platform, modules[i].WORKING_DIRECTORY) # <<>>

\* C6: imported with none of the consumed variables set, the constants are
\* "WARNING", None, False, True, <server directory>/workdir, None.
C6_DefaultsWhenNothingSet ==
    \A i \in DOMAIN modules :
        (DOMAIN loadEnv[i] \cap Keys = {}) =>
            /\ modules[i].FASTMCP_LOG_LEVEL = PyStr(WARNING)
            /\ modules[i].DEFAULT_REGION = PyNone
            /\ modules[i].READ_OPERATIONS_ONLY_MODE = FALSE
            /\ modules[i].OPT_IN_TELEMETRY = TRUE
            /\ modules[i].WORKING_DIRECTORY =
                   PathJoin(get_server_directory(platform, loadEnv[i], tempdir), workdir)
            /\ PathStr(platform, modules[i].WORKING_DIRECTORY) =
                   tempdir \o <<Sep(platform)>> \o base_location
                           \o <<Sep(platform)>> \o workdir
            /\ modules[i].AWS_API_MCP_PROFILE_NAME = PyNone

\* C6 witness: a module imported under the empty environment
C6_Witness ==
    /\ 1 \in DOMAIN modules
    /\ DOMAIN loadEnv[1] = {}
    /\ modules[1].OPT_IN_TELEMETRY = TRUE
    /\ modules[1].WORKING_DIRECTORY.type = "Path"

\* the raw value of a variable, None when it is not set
RawOrNone(env, k) == IF k \in DOMAIN env THEN [type |-> "str", s |-> env[k]] ELSE PyNone

\* C8: DEFAULT_REGION and AWS_API_MCP_PROFILE_NAME are the raw value of their
\* variable when it is set, the empty string included, and None when it is not;
\* FASTMCP_LOG_LEVEL is the raw value when set and "WARNING" when not.
C8_StringsPassThrough ==
    \A i \in DOMAIN modules :
        LET e == loadEnv[i]
            m == modules[i]
        IN  /\ m.DEFAULT_REGION = RawOrNone(e, "AWS_REGION")
            /\ m.AWS_API_MCP_PROFILE_NAME = RawOrNone(e, "AWS_API_MCP_PROFILE_NAME")
            /\ m.FASTMCP_LOG_LEVEL =
                   IF "FASTMCP_LOG_LEVEL" \in DOMAIN e
                   THEN [type |-> "str", s |-> e["FASTMCP_LOG_LEVEL"]]
                   ELSE [type |-> "str", s |-> WARNING]

\* C8 witness: AWS_REGION and FASTMCP_LOG_LEVEL set to the empty string, the
\* profile not set
C8_Witness ==
    /\ 1 \in DOMAIN modules
    /\ "AWS_REGION" \in DOMAIN loadEnv[1]
    /\ loadEnv[1]["AWS_REGION"] = <<>>
    /\ "FASTMCP_LOG_LEVEL" \in DOMAIN loadEnv[1]
    /\ loadEnv[1]["FASTMCP_LOG_LEVEL"] = <<>>
    /\ "AWS_API_MCP_PROFILE_NAME" \notin DOMAIN loadEnv[1]
    /\ modules[1].DEFAULT_REGION = [type |-> "str", s |-> <<>>]
    /\ modules[1].FASTMCP_LOG_LEVEL = [type |-> "str", s |-> <<>>]
    /\ modules[1].AWS_API_MCP_PROFILE_NAME = PyNone

\* the environment with XDG_RUNTIME_DIR and TMPDIR replaced by those of `dirs`
WithDirs(env, dirs) ==
    [k \in (DOMAIN env \ DirKeys) \cup DOMAIN dirs |->
        IF k \in DOMAIN dirs THEN dirs[k] ELSE env[k]]

DirTables == UNION {[set -> {<<>>, <<"/", "r">>, <<"/", "x">>}] : set \in SUBSET DirKeys}

C9_ComputedOnceNeverMutated ==
    [][/\ DOMAIN modules \subseteq DOMAIN modules'
       /\ \A i \in DOMAIN modules' :
             IF i \in DOMAIN modules
             THEN modules'[i] = modules[i]
             ELSE modules'[i] = ModuleBody(platform, environ, tempdir)]_vars

\* C9 witness: a consumer has read the constants of a module whose constants
\* differ from what the present environment would give
C9_Witness ==
    /\ 1 \in DOMAIN modules
    /\ environ # loadEnv[1]
    /\ modules[1] # ModuleBody(platform, environ, tempdir)
    /\ call.fn = "read"
    /\ call.interp = 1
    /\ call.ret = modules[1]

====
